---- MODULE Spec2Model ----
(***************************************************************************)
(* Task-Manager-Backend: the task / class / notification handlers of       *)
(* src/controllers, over the relational store they share.  Every handler   *)
(* is one action; the overdue scan, whose loop awaits the store twice per  *)
(* task, is a process with one step per await; a notification insert that  *)
(* a task handler starts without awaiting it is a message in flight.       *)
(*                                                                         *)
(* The specifications share the handlers and differ in the requests:       *)
(*   Spec        the owners' task requests and one overdue scan at a time  *)
(*   SpecRace    the same with two overdue scans interleaved               *)
(*   SpecTasks   creator, assignee and another teacher on the tasks, with  *)
(*               the notification inserts landing later or failing        *)
(*   SpecClasses a class, its members, and tasks put in it                 *)
(*   SpecRead    notifications and the users who mark them read            *)
(*   SpecMembers two classes, createClass calls that overlap, and joins    *)
(*   SpecJoin    joinClass calls that overlap                              *)
(*   SpecWrite   a student's updateTask in two steps, the teacher's        *)
(*               reassignment in between                                   *)
(***************************************************************************)
EXTENDS Naturals, Sequences, FiniteSets, TLC

(* ------------------------------ bounds -------------------------------- *)

MaxTasks == 1

MaxNotifs == 2

(* ------------------------------ values -------------------------------- *)

\* JS null / SQL NULL in a text or uuid column.
Null == "null"

\* JS undefined: a field the request body does not carry.
Absent == "absent"

\* !x in JavaScript, for the values a body field takes here.
Falsy(x) == x \in {Absent, Null, ""}

\* SQL NULL in notifications.task_id; task ids are 1, 2, ...
NullId == 0

Users == {"s1", "t1", "t2", "a1"}

Role == [u \in Users |->
           CASE u = "s1" -> "student"
             [] u = "a1" -> "admin"
             [] OTHER    -> "teacher"]

\* A user id that names no row of users.
NoSuchUser == "u0"

\* Class ids in the order the store hands them out; an id is never reused.
ClassIdSeq == <<"c1", "c2">>

ClassIds == {ClassIdSeq[i] : i \in 1..Len(ClassIdSeq)}

\* A class id that names no row of classes.
NoSuchClass == "c0"

\* What crypto.randomBytes(4).toString("hex") can return.
Codes == {"k1", "k2"}

\* new Date().toISOString().split("T")[0], the same day for the whole run.
Today == "2024-01-02"

Yesterday == "2024-01-01"

\* DATE columns compare by calendar day.
DayNo(d) == IF d = Yesterday THEN 1 ELSE 2

ValidStatus == {"todo", "in-progress", "completed"}

Scanners == {1, 2}

(* ------------------------------- state -------------------------------- *)

VARIABLES
  classes,     \* live rows of classes: id -> [teacher_id, invite_code]
  nextClass,   \* index in ClassIdSeq of the next class id
  members,     \* rows of class_members: <<class_id, user_id>>
  tasks,       \* live rows of tasks: id -> record
  nextTask,    \* the next task id
  notifs,      \* rows of notifications
  inflight,    \* notification inserts started and not awaited
  notifFk,     \* which CREATE TABLE notifications took effect
  creating,    \* createClass calls between their lookup and their insert
  joining,     \* joinClass calls between their lookup and their insert
  updating,    \* a student's updateTask calls between their read of the
               \* task and their write
  scan,        \* checkOverdueTasks invocations: position in the loop, the
               \* count so far, history: the notifications stored so far
  runs,        \* history: consecutive undisturbed scans and their results
  resp         \* the last response sent

vars == <<classes, nextClass, members, tasks, nextTask, notifs, inflight, notifFk,
          creating, joining, updating, scan, runs, resp>>

IdleScan == [pc |-> "idle", todo |-> <<>>, count |-> 0, made |-> 0, dirty |-> FALSE]

NoRuns == [n |-> 0, total |-> 0, same |-> TRUE, lastCount |-> 0, lastMade |-> 0]

NoResp == [op |-> "none", actor |-> Null, status |-> 0, message |-> ""]

Init ==
  /\ classes = [c \in {} |-> Null]
  /\ nextClass = 1
  /\ members = {}
  /\ tasks = [t \in {} |-> Null]
  /\ nextTask = 1
  /\ notifs = {}
  /\ inflight = {}
  /\ notifFk \in {"cascade", "setnull"}
  /\ creating = {}
  /\ joining = {}
  /\ updating = {}
  /\ scan = [s \in Scanners |-> IdleScan]
  /\ runs = NoRuns
  /\ resp = NoResp

Reply(op, actor, status, message) ==
  resp' = [op |-> op, actor |-> actor, status |-> status, message |-> message]

\* A handler other than the scan: whatever it changes in tasks or
\* notifications disturbs the scans under way and ends a run of scans.
Disturb ==
  LET changed == <<tasks', notifs'>> # <<tasks, notifs>> IN
  /\ scan' = [s \in Scanners |->
                IF changed /\ scan[s].pc # "idle"
                  THEN [scan[s] EXCEPT !.dirty = TRUE] ELSE scan[s]]
  /\ runs' = IF changed THEN NoRuns ELSE runs

(* --------------------------- route guards ----------------------------- *)

\* requireRole("teacher", "admin") in front of a handler.
requireRole(actor) == Role[actor] \in {"teacher", "admin"}

Forbidden(op, actor) ==
  /\ Reply(op, actor, 403, "requires teacher or admin role")
  /\ UNCHANGED <<classes, nextClass, members, tasks, nextTask, notifs,
                 inflight, notifFk, joining, updating, creating, scan, runs>>

\* A refusal that comes after the class has lost its members.
Refuse_afterWrite(op, actor, status, message) ==
  /\ Reply(op, actor, status, message)
  /\ members' = {}
  /\ UNCHANGED <<classes, nextClass, tasks, nextTask, notifs,
                 inflight, notifFk, joining, updating, creating, scan, runs>>

\* A handler that returns before it writes anything.
Refuse(op, actor, status, message) ==
  /\ Reply(op, actor, status, message)
  /\ UNCHANGED <<classes, nextClass, members, tasks, nextTask, notifs,
                 inflight, notifFk, joining, updating, creating, scan, runs>>

(* ------------------------------ classes ------------------------------- *)

CodeTaken(code) == \E c \in DOMAIN classes : classes[c].invite_code = code

\* An insert that the store accepts whatever the code.
InsertClass_noUnique(actor, inviteCode) ==
  /\ nextClass <= Len(ClassIdSeq)
  /\ classes' = classes @@
       (ClassIdSeq[nextClass] :>
          [teacher_id |-> actor, invite_code |-> inviteCode])
  /\ nextClass' = nextClass + 1
  /\ Reply("createClass", actor, 201, "Class created successfully")
  /\ UNCHANGED <<members, tasks, nextTask, notifs, inflight,
                 notifFk, joining, updating, scan, runs>>

\* The insert of createClass and its answer; invite_code is UNIQUE.
InsertClass(actor, inviteCode) ==
  /\ IF CodeTaken(inviteCode)
       THEN /\ Reply("createClass", actor, 500, "Failed to create class")
            /\ UNCHANGED <<classes, nextClass>>
       ELSE /\ nextClass <= Len(ClassIdSeq)
            /\ classes' = classes @@
                 (ClassIdSeq[nextClass] :>
                    [teacher_id |-> actor, invite_code |-> inviteCode])
            /\ nextClass' = nextClass + 1
            /\ Reply("createClass", actor, 201, "Class created successfully")
  /\ UNCHANGED <<members, tasks, nextTask, notifs, inflight,
                 notifFk, joining, updating, scan, runs>>

\* The code createClass goes to the store with: code1 is the first
\* generateInviteCode(), code2 the second, made when the lookup finds code1.
inviteCode(code1, code2) == IF CodeTaken(code1) THEN code2 ELSE code1

\* createClass with nothing between its lookup and its insert.
createClass(actor, nameBlank, code1, code2) ==
  IF ~requireRole(actor) THEN Forbidden("createClass", actor)
  ELSE IF nameBlank THEN Refuse("createClass", actor, 400, "Class name is required")
  ELSE
    /\ InsertClass(actor, inviteCode(code1, code2))
    /\ UNCHANGED creating

\* createClass up to its insert: the lookup has answered, the insert has
\* not been sent.
createClassLookup(actor, nameBlank, code1, code2) ==
  IF ~requireRole(actor) THEN Forbidden("createClass", actor)
  ELSE IF nameBlank THEN Refuse("createClass", actor, 400, "Class name is required")
  ELSE
    /\ creating' = creating \cup
         {[teacher_id |-> actor, invite_code |-> inviteCode(code1, code2)]}
    /\ UNCHANGED <<classes, nextClass, members, tasks, nextTask, notifs,
                   inflight, notifFk, joining, updating, scan, runs, resp>>

\* createClass from its insert on.
createClassInsert(c) ==
  /\ c \in creating
  /\ creating' = creating \ {c}
  /\ InsertClass(c.teacher_id, c.invite_code)

\* ON DELETE CASCADE of notifications.class_id exists in one schema only.
NotifsAfterClassDelete(id) ==
  IF notifFk = "cascade" THEN {n \in notifs : n.class_id # id} ELSE notifs

\* A read: the row goes out, the store stays as it is.
Found(op, actor) == Refuse(op, actor, 200, "")

getClass(actor, id) ==
  IF id \notin DOMAIN classes
    THEN Refuse("getClass", actor, 404, "Class not found")
  ELSE IF Role[actor] = "teacher" /\ classes[id].teacher_id # actor
    THEN Refuse("getClass", actor, 403, "Forbidden")
  ELSE IF Role[actor] = "student" /\ <<id, actor>> \notin members
    THEN Refuse("getClass", actor, 403, "you are not a member of this class")
  ELSE Found("getClass", actor)

\* The ids of the classes getClasses answers with.
getClasses(actor) ==
  CASE Role[actor] = "admin"   -> DOMAIN classes
    [] Role[actor] = "teacher" ->
         {c \in DOMAIN classes : classes[c].teacher_id = actor}
    [] OTHER ->
         {c \in DOMAIN classes : <<c, actor>> \in members}

\* The users getClassMembers answers with: the rows of the class, whoever
\* asks.
getClassMembers(actor, id) == {m[2] : m \in {x \in members : x[1] = id}}

\* updateClass writes name and description, which the model does not keep;
\* empty: the payload has neither.
updateClass(actor, id, empty) ==
  IF ~requireRole(actor) THEN Forbidden("updateClass", actor)
  ELSE IF id \notin DOMAIN classes
    THEN Refuse("updateClass", actor, 404, "Class not found")
  ELSE IF classes[id].teacher_id # actor /\ Role[actor] # "admin"
    THEN Refuse("updateClass", actor, 403, "Forbidden")
  ELSE IF empty
    THEN Refuse("updateClass", actor, 400, "No fields to update")
  ELSE Refuse("updateClass", actor, 200, "Class updated")

\* A foreign key that takes the tasks away with their class.
TasksAfterClassDelete_cascade(id) ==
  [t \in {x \in DOMAIN tasks : tasks[x].class_id # id} |-> tasks[t]]

\* update({ class_id: null }).eq("class_id", id), and ON DELETE SET NULL.
TasksAfterClassDelete(id) ==
  [t \in DOMAIN tasks |->
     IF tasks[t].class_id = id
       THEN [tasks[t] EXCEPT !.class_id = Null] ELSE tasks[t]]

deleteClass(actor, id) ==
  IF ~requireRole(actor) THEN Forbidden("deleteClass", actor)
  ELSE IF id \notin DOMAIN classes
    THEN Refuse("deleteClass", actor, 404, "Class not found")
  ELSE IF classes[id].teacher_id # actor /\ Role[actor] # "admin"
    THEN Refuse("deleteClass", actor, 403, "Forbidden")
  ELSE
    /\ tasks' = TasksAfterClassDelete(id)
    /\ classes' = [c \in DOMAIN classes \ {id} |-> classes[c]]
    /\ members' = {m \in members : m[1] # id}
    /\ notifs' = NotifsAfterClassDelete(id)
    /\ Reply("deleteClass", actor, 200, "Class deleted successfully")
    /\ Disturb
    /\ UNCHANGED <<nextClass, nextTask, inflight, notifFk, joining, updating, creating>>

\* invite_code.trim(), for the codes a request carries here.
Trim(code) ==
  CASE code = " k1 " -> "k1"
    [] code = " "    -> ""
    [] OTHER         -> code

\* A check that never finds the caller to be the teacher.
IsTeacher_never(cls, actor) == FALSE

\* cls.teacher_id === userId
IsTeacher(cls, actor) == classes[cls].teacher_id = actor

\* A lookup that never finds the membership row.
AlreadyMember_never(cls, actor) == FALSE

\* The lookup of the caller's row in class_members.
AlreadyMember(cls, actor) == <<cls, actor>> \in members

joinClass(actor, invite_code) ==
  IF Falsy(invite_code)
    THEN Refuse("joinClass", actor, 400, "Invite code is required")
  ELSE IF ~CodeTaken(Trim(invite_code))
    THEN Refuse("joinClass", actor, 404, "Invalid invite code")
  ELSE
    LET cls == CHOOSE c \in DOMAIN classes :
                 classes[c].invite_code = Trim(invite_code) IN
    IF IsTeacher(cls, actor)
      THEN Refuse("joinClass", actor, 400, "You are the teacher of this class")
    ELSE IF AlreadyMember(cls, actor)
      THEN Refuse("joinClass", actor, 400, "You are already a member of this class")
    ELSE
      /\ members' = members \cup {<<cls, actor>>}
      /\ Reply("joinClass", actor, 200, "Joined class")
      /\ UNCHANGED <<classes, nextClass, tasks, nextTask, notifs, inflight, notifFk, joining, updating, creating, scan, runs>>

\* The requests in flight that a user sends to joinClass are told apart by
\* a tag.
JoinTags == {"j1", "j2"}

\* joinClass up to its insert: the class and the caller's row have been
\* looked up, the insert has not been sent.
joinClassLookup(tag, actor, invite_code) ==
  /\ \A j \in joining : j.tag # tag
  /\ IF Falsy(invite_code)
       THEN Refuse("joinClass", actor, 400, "Invite code is required")
     ELSE IF ~CodeTaken(Trim(invite_code))
       THEN Refuse("joinClass", actor, 404, "Invalid invite code")
     ELSE
       LET cls == CHOOSE c \in DOMAIN classes :
                    classes[c].invite_code = Trim(invite_code) IN
       IF IsTeacher(cls, actor)
         THEN Refuse("joinClass", actor, 400, "You are the teacher of this class")
       ELSE IF AlreadyMember(cls, actor)
         THEN Refuse("joinClass", actor, 400, "You are already a member of this class")
       ELSE
         /\ joining' = joining \cup
              {[tag |-> tag, class_id |-> cls, user_id |-> actor]}
         /\ UNCHANGED <<classes, nextClass, members, tasks, nextTask, notifs,
                        inflight, notifFk, creating, updating, scan, runs, resp>>

\* A class_members table without UNIQUE(class_id, user_id): a second row
\* for the pair is stored, kept apart from the first by its own key.
joinClassInsert_noUnique(j) ==
  /\ j \in joining
  /\ joining' = joining \ {j}
  /\ IF j.class_id \notin DOMAIN classes
       THEN /\ members' = members
            /\ Reply("joinClass", j.user_id, 500, "Internal server error")
       ELSE /\ members' = members \cup
                 {IF <<j.class_id, j.user_id>> \in members
                    THEN <<j.class_id, j.user_id, j.tag>>
                    ELSE <<j.class_id, j.user_id>>}
            /\ Reply("joinClass", j.user_id, 200, "Joined class")
  /\ UNCHANGED <<classes, nextClass, tasks, nextTask, notifs, inflight,
                 notifFk, creating, updating, scan, runs>>

\* joinClass from its insert on.  The store refuses the row when its class
\* is gone (class_id REFERENCES classes) and when the pair has a row
\* (UNIQUE(class_id, user_id)); the handler throws the error and its catch
\* answers 500.
joinClassInsert(j) ==
  /\ j \in joining
  /\ joining' = joining \ {j}
  /\ IF \/ j.class_id \notin DOMAIN classes
        \/ <<j.class_id, j.user_id>> \in members
       THEN /\ members' = members
            /\ Reply("joinClass", j.user_id, 500, "Internal server error")
       ELSE /\ members' = members \cup {<<j.class_id, j.user_id>>}
            /\ Reply("joinClass", j.user_id, 200, "Joined class")
  /\ UNCHANGED <<classes, nextClass, tasks, nextTask, notifs, inflight,
                 notifFk, creating, updating, scan, runs>>

removeMember(actor, classId, memberId) ==
  IF ~requireRole(actor) THEN Forbidden("removeMember", actor)
  ELSE IF classId \notin DOMAIN classes
    THEN Refuse("removeMember", actor, 404, "Class not found")
  ELSE IF classes[classId].teacher_id # actor /\ Role[actor] # "admin"
    THEN Refuse("removeMember", actor, 403, "Forbidden")
  ELSE
    /\ members' = members \ {<<classId, memberId>>}
    /\ Reply("removeMember", actor, 200, "Member removed from class")
    /\ UNCHANGED <<classes, nextClass, tasks, nextTask, notifs, inflight, notifFk, joining, updating, creating, scan, runs>>

(* --------------------------- notifications ---------------------------- *)

Notification(id, user_id, type, task_id, class_id) ==
  [id |-> id, user_id |-> user_id, type |-> type, task_id |-> task_id,
   class_id |-> class_id, is_read |-> FALSE]

\* The foreign keys of notifications: task_id in both schemas, class_id in
\* the one that declares it.
InsertAccepted(n) ==
  /\ n.task_id = NullId \/ n.task_id \in DOMAIN tasks
  /\ notifFk = "cascade" => (n.class_id = Null \/ n.class_id \in DOMAIN classes)

\* The ids of the rows and of the inserts on their way; an id is opaque, the
\* store gives a new row one that no row has.
UsedIds == {n.id : n \in notifs \cup inflight}

HasFreshId == \E i \in 1..MaxNotifs : i \notin UsedIds

FreshId == CHOOSE i \in 1..MaxNotifs : i \notin UsedIds /\ \A j \in 1..(i - 1) : j \in UsedIds

\* A call that leaves task_id to its default, null.
Dispatch_noTask(user_id, type, task_id, class_id) ==
  /\ HasFreshId
  /\ inflight' = inflight \cup
       {Notification(FreshId, user_id, type, NullId, class_id)}

\* createNotification called without await: the handler goes on, the insert
\* is on its way to the store.
Dispatch(user_id, type, task_id, class_id) ==
  /\ HasFreshId
  /\ inflight' = inflight \cup
       {Notification(FreshId, user_id, type, task_id, class_id)}

\* An insert whose failure takes the task back out of the store.
createNotification_rollback(n, ok) ==
  /\ n \in inflight
  /\ ok => InsertAccepted(n)
  /\ inflight' = inflight \ {n}
  /\ notifs' = IF ok THEN notifs \cup {n} ELSE notifs
  /\ tasks' = IF ok THEN tasks
             ELSE [t \in DOMAIN tasks \ {n.task_id} |-> tasks[t]]
  /\ Disturb
  /\ UNCHANGED <<classes, nextClass, members, nextTask, notifFk, joining, updating, creating,
                 resp>>

\* The insert of createNotification reaches the store; an error is logged
\* and nothing else happens.
createNotification(n, ok) ==
  /\ n \in inflight
  /\ ok => InsertAccepted(n)
  /\ inflight' = inflight \ {n}
  /\ notifs' = IF ok THEN notifs \cup {n} ELSE notifs
  /\ tasks' = tasks
  /\ Disturb
  /\ UNCHANGED <<classes, nextClass, members, nextTask, notifFk, joining, updating, creating,
                 resp>>

\* An update by id alone, without .eq("user_id", userId).
markAsRead_anyUser(actor, id) ==
  /\ notifs' = {IF n.id = id
                  THEN [n EXCEPT !.is_read = TRUE] ELSE n : n \in notifs}
  /\ Reply("markAsRead", actor, 200, "Notification marked as read")
  /\ tasks' = tasks
  /\ Disturb
  /\ UNCHANGED <<classes, nextClass, members, nextTask, inflight,
                 notifFk, joining, updating, creating>>

markAsRead(actor, id) ==
  /\ notifs' = {IF n.id = id /\ n.user_id = actor
                  THEN [n EXCEPT !.is_read = TRUE] ELSE n : n \in notifs}
  /\ Reply("markAsRead", actor, 200, "Notification marked as read")
  /\ tasks' = tasks
  /\ Disturb
  /\ UNCHANGED <<classes, nextClass, members, nextTask, inflight,
                 notifFk, joining, updating, creating>>

markAllAsRead(actor) ==
  /\ notifs' = {IF n.user_id = actor /\ ~n.is_read
                  THEN [n EXCEPT !.is_read = TRUE] ELSE n : n \in notifs}
  /\ Reply("markAllAsRead", actor, 200, "All notifications marked as read")
  /\ tasks' = tasks
  /\ Disturb
  /\ UNCHANGED <<classes, nextClass, members, nextTask, inflight,
                 notifFk, joining, updating, creating>>

(* ------------------------------- tasks -------------------------------- *)

\* x || null
OrNull(x) == IF Falsy(x) THEN Null ELSE x

\* A check of the role alone: any teacher passes.
NotClassOwner_studentsOnly(actor, class_id) == Role[actor] = "student"

\* req.user.role !== "admin" && cls.teacher_id !== createdBy
NotClassOwner(actor, class_id) ==
  Role[actor] # "admin" /\ classes[class_id].teacher_id # actor

\* A row that takes status and created_by from the payload when it has them.
taskData_fromBody(actor, body) ==
  [title       |-> body.title,
   due_date    |-> OrNull(body.due_date),
   status      |-> IF Falsy(body.status) THEN "todo" ELSE body.status,
   created_by  |-> IF Falsy(body.created_by) THEN actor ELSE body.created_by,
   assignee_id |-> OrNull(body.assignee_id),
   class_id    |-> OrNull(body.class_id)]

\* The row createTask inserts.
taskData(actor, body) ==
  [title       |-> body.title,
   due_date    |-> OrNull(body.due_date),
   status      |-> "todo",
   created_by  |-> actor,
   assignee_id |-> OrNull(body.assignee_id),
   class_id    |-> OrNull(body.class_id)]

createTask(actor, body) ==
  IF ~requireRole(actor) THEN Forbidden("createTask", actor)
  ELSE IF Falsy(body.title)
    THEN Refuse("createTask", actor, 400, "Title is required")
  ELSE IF ~Falsy(body.class_id) /\ body.class_id \notin DOMAIN classes
    THEN Refuse("createTask", actor, 400, "Invalid class")
  ELSE IF ~Falsy(body.class_id) /\ NotClassOwner(actor, body.class_id)
    THEN Refuse("createTask", actor, 400, "You don't own this class")
  ELSE IF ~Falsy(body.assignee_id) /\ body.assignee_id \notin Users
    THEN Refuse("createTask", actor, 400, "Assignee not found")
  ELSE
    LET task == taskData(actor, body) IN
    /\ nextTask <= MaxTasks
    /\ tasks' = tasks @@ (nextTask :> task)
    /\ nextTask' = nextTask + 1
    /\ IF task.assignee_id # Null
         THEN Dispatch(task.assignee_id, "task_assigned", nextTask, task.class_id)
         ELSE UNCHANGED inflight
    /\ Reply("createTask", actor, 201, "Task created successfully")
    /\ notifs' = notifs
    /\ Disturb
    /\ UNCHANGED <<classes, nextClass, members, notifFk, joining, updating, creating>>

\* The ids of the tasks getTasks answers with, for a query with no filter
\* and a page that holds them all.
getTasks(actor) ==
  IF Role[actor] \in {"teacher", "admin"}
    THEN {t \in DOMAIN tasks : tasks[t].created_by = actor}
    ELSE {t \in DOMAIN tasks : tasks[t].assignee_id = actor}

getTask(actor, id) ==
  IF id \notin DOMAIN tasks
    THEN Refuse("getTask", actor, 404, "Task not found")
  ELSE IF Role[actor] = "student" /\ tasks[id].assignee_id # actor
    THEN Refuse("getTask", actor, 403, "you can only view tasks assigned to you")
  ELSE IF Role[actor] = "teacher" /\ tasks[id].created_by # actor
    THEN Refuse("getTask", actor, 403, "you can only view tasks you created")
  ELSE Found("getTask", actor)

\* Every field of the body goes into updateData.
UpdateFields_withCreator ==
  {"title", "due_date", "status", "assignee_id", "class_id", "created_by"}

\* The fields of the body that updateTask copies into updateData.
UpdateFields == {"title", "due_date", "status", "assignee_id", "class_id"}

updateData(body) == {f \in UpdateFields : body[f] # Absent}

\* What the store refuses in an UPDATE of tasks: the CHECK on status, the
\* NOT NULL on title, the foreign keys of assignee_id and class_id.
UpdateRejected(body) ==
  \/ body.status \notin ValidStatus \cup {Absent, Null}
  \/ body.title = Null
  \/ body.assignee_id \notin Users \cup {Absent, Null}
  \/ body.class_id \notin DOMAIN classes \cup {Absent, Null}

\* A check that the payload is empty, not that it lacks a status.
NoStatus_emptyPayload(body) == updateData(body) = {}

\* const { status } = req.body; !status
NoStatus(body) == Falsy(body.status)

\* The student branch with the notification sent to the student.
updateTaskStudent_notifySelf(actor, id, body) ==
  IF tasks[id].assignee_id # actor
    THEN Refuse("updateTask", actor, 403, "you can only update tasks assigned to you")
  ELSE IF NoStatus(body)
    THEN Refuse("updateTask", actor, 400, "Students can only update task status")
  ELSE IF body.status \notin ValidStatus
    THEN Refuse("updateTask", actor, 500, "Failed to update task")
  ELSE
    /\ tasks' = [tasks EXCEPT ![id].status = body.status]
    /\ IF body.status = "completed"
         THEN Dispatch(actor, "task_completed", id, Null)
         ELSE UNCHANGED inflight
    /\ Reply("updateTask", actor, 200, "Task status updated")
    /\ notifs' = notifs
    /\ Disturb
    /\ UNCHANGED <<classes, nextClass, members, nextTask, notifFk, joining, updating, creating>>

\* The student branch with every field of the payload written.
updateTaskStudent_allFields(actor, id, body) ==
  IF tasks[id].assignee_id # actor
    THEN Refuse("updateTask", actor, 403, "you can only update tasks assigned to you")
  ELSE IF NoStatus(body)
    THEN Refuse("updateTask", actor, 400, "Students can only update task status")
  ELSE IF body.status \notin ValidStatus
    THEN Refuse("updateTask", actor, 500, "Failed to update task")
  ELSE
    /\ tasks' = [tasks EXCEPT ![id] =
                   [f \in DOMAIN tasks[id] |->
                      IF f \in updateData(body) THEN body[f] ELSE tasks[id][f]]]
    /\ IF body.status = "completed"
         THEN Dispatch(tasks[id].created_by, "task_completed", id, Null)
         ELSE UNCHANGED inflight
    /\ Reply("updateTask", actor, 200, "Task status updated")
    /\ notifs' = notifs
    /\ Disturb
    /\ UNCHANGED <<classes, nextClass, members, nextTask, notifFk, joining, updating, creating>>

\* The student branch of updateTask, after the row has been fetched.
updateTaskStudent(actor, id, body) ==
  IF tasks[id].assignee_id # actor
    THEN Refuse("updateTask", actor, 403, "you can only update tasks assigned to you")
  ELSE IF NoStatus(body)
    THEN Refuse("updateTask", actor, 400, "Students can only update task status")
  ELSE IF body.status \notin ValidStatus
    THEN Refuse("updateTask", actor, 500, "Failed to update task")
  ELSE
    /\ tasks' = [tasks EXCEPT ![id].status = body.status]
    /\ IF body.status = "completed"
         THEN Dispatch(tasks[id].created_by, "task_completed", id, Null)
         ELSE UNCHANGED inflight
    /\ Reply("updateTask", actor, 200, "Task status updated")
    /\ notifs' = notifs
    /\ Disturb
    /\ UNCHANGED <<classes, nextClass, members, nextTask, notifFk, joining, updating, creating>>

\* A student's updateTask up to its write: the row has been fetched, the
\* caller found to be its assignee and the payload to have a status; the
\* UPDATE has not been sent.
updateTaskRead(actor, id, body) ==
  /\ Role[actor] = "student"
  /\ IF id \notin DOMAIN tasks
       THEN Refuse("updateTask", actor, 404, "Task not found")
     ELSE IF tasks[id].assignee_id # actor
       THEN Refuse("updateTask", actor, 403, "you can only update tasks assigned to you")
     ELSE IF NoStatus(body)
       THEN Refuse("updateTask", actor, 400, "Students can only update task status")
     ELSE
       /\ updating' = updating \cup
            {[actor |-> actor, id |-> id, status |-> body.status,
              created_by |-> tasks[id].created_by]}
       /\ UNCHANGED <<classes, nextClass, members, tasks, nextTask, notifs,
                      inflight, notifFk, creating, joining, scan, runs, resp>>

\* A student's updateTask from its write on: UPDATE tasks SET status WHERE
\* id, whoever the assignee is by now; the row it answers with is the one
\* the UPDATE returns, and a task that is gone returns none.
updateTaskWrite(u) ==
  /\ u \in updating
  /\ updating' = updating \ {u}
  /\ notifs' = notifs
  /\ IF u.status \notin ValidStatus \/ u.id \notin DOMAIN tasks
       THEN /\ tasks' = tasks
            /\ inflight' = inflight
            /\ Reply("updateTask", u.actor, 500, "Failed to update task")
       ELSE /\ tasks' = [tasks EXCEPT ![u.id].status = u.status]
            /\ IF u.status = "completed"
                 THEN Dispatch(u.created_by, "task_completed", u.id, Null)
                 ELSE UNCHANGED inflight
            /\ Reply("updateTask", u.actor, 200, "Task status updated")
  /\ Disturb
  /\ UNCHANGED <<classes, nextClass, members, nextTask, notifFk, creating, joining>>

\* The check made after the payload was looked at: an empty payload
\* never reaches it.
NotTaskOwner_afterPayload(actor, id, body) ==
  /\ updateData(body) # {}
  /\ tasks[id].created_by # actor
  /\ Role[actor] # "admin"

\* existingTask.created_by !== userId && role !== "admin"
NotTaskOwner(actor, id, body) ==
  tasks[id].created_by # actor /\ Role[actor] # "admin"

\* The teacher / admin branch with a notification for a completed task.
updateTaskOwner_notifies(actor, id, body) ==
  IF NotTaskOwner(actor, id, body)
    THEN Refuse("updateTask", actor, 403, "you can only edit tasks you created")
  ELSE IF updateData(body) = {}
    THEN Refuse("updateTask", actor, 400, "No fields to update")
  ELSE IF UpdateRejected(body)
    THEN Refuse("updateTask", actor, 500, "Failed to update task")
  ELSE
    /\ tasks' = [tasks EXCEPT ![id] =
                   [f \in DOMAIN tasks[id] |->
                      IF f \in updateData(body) THEN body[f] ELSE tasks[id][f]]]
    /\ IF body.status = "completed"
         THEN Dispatch(tasks[id].created_by, "task_completed", id, Null)
         ELSE UNCHANGED inflight
    /\ Reply("updateTask", actor, 200, "Task updated successfully")
    /\ notifs' = notifs
    /\ Disturb
    /\ UNCHANGED <<classes, nextClass, members, nextTask, notifFk, joining, updating, creating>>

\* The teacher / admin branch of updateTask.
updateTaskOwner(actor, id, body) ==
  IF NotTaskOwner(actor, id, body)
    THEN Refuse("updateTask", actor, 403, "you can only edit tasks you created")
  ELSE IF updateData(body) = {}
    THEN Refuse("updateTask", actor, 400, "No fields to update")
  ELSE IF UpdateRejected(body)
    THEN Refuse("updateTask", actor, 500, "Failed to update task")
  ELSE
    /\ tasks' = [tasks EXCEPT ![id] =
                   [f \in DOMAIN tasks[id] |->
                      IF f \in updateData(body) THEN body[f] ELSE tasks[id][f]]]
    /\ Reply("updateTask", actor, 200, "Task updated successfully")
    /\ notifs' = notifs
    /\ Disturb
    /\ UNCHANGED <<classes, nextClass, members, nextTask, inflight,
                   notifFk, joining, updating, creating>>

updateTask(actor, id, body) ==
  IF id \notin DOMAIN tasks THEN Refuse("updateTask", actor, 404, "Task not found")
  ELSE IF Role[actor] = "student" THEN updateTaskStudent(actor, id, body)
  ELSE updateTaskOwner(actor, id, body)

\* notifications.task_id is ON DELETE CASCADE in one schema, SET NULL in the
\* other.
NotifsAfterTaskDelete(id) ==
  IF notifFk = "cascade"
    THEN {n \in notifs : n.task_id # id}
    ELSE {IF n.task_id = id THEN [n EXCEPT !.task_id = NullId] ELSE n : n \in notifs}

deleteTask(actor, id) ==
  IF ~requireRole(actor) THEN Forbidden("deleteTask", actor)
  ELSE IF id \notin DOMAIN tasks
    THEN Refuse("deleteTask", actor, 404, "Task not found")
  ELSE IF tasks[id].created_by # actor /\ Role[actor] # "admin"
    THEN Refuse("deleteTask", actor, 403, "you can only delete tasks you created")
  ELSE
    /\ tasks' = [t \in DOMAIN tasks \ {id} |-> tasks[t]]
    /\ notifs' = NotifsAfterTaskDelete(id)
    /\ Reply("deleteTask", actor, 200, "Task deleted successfully")
    /\ Disturb
    /\ UNCHANGED <<classes, nextClass, members, nextTask, inflight,
                   notifFk, joining, updating, creating>>

(* ------------------------- checkOverdueTasks -------------------------- *)

\* .lt("due_date", today).neq("status", "completed")
Overdue(t) ==
  /\ tasks[t].due_date # Null
  /\ DayNo(tasks[t].due_date) < DayNo(Today)
  /\ tasks[t].status # "completed"

RECURSIVE Rows(_)
\* The rows of the query, by id.
Rows(ids) ==
  IF ids = {} THEN <<>>
  ELSE LET t == CHOOSE x \in ids : \A y \in ids : x <= y IN
       <<[id |-> t, created_by |-> tasks[t].created_by]>> \o Rows(ids \ {t})

\* A scan that never finds the notification it looks for.
existing_never(task) == FALSE

\* A lookup that only counts the notifications not read yet.
existing_unread(task) ==
  Cardinality({n \in notifs : /\ n.task_id = task.id
                              /\ n.type = "task_overdue"
                              /\ n.user_id = task.created_by
                              /\ ~n.is_read}) = 1

\* The lookup of the loop: maybeSingle() gives the row when exactly one
\* matches, and null (with an error nobody reads) when none or several do.
existing(task) ==
  Cardinality({n \in notifs : /\ n.task_id = task.id
                              /\ n.type = "task_overdue"
                              /\ n.user_id = task.created_by}) = 1

\* The table after the insert of a task_overdue notification.
InsertOverdue(task) ==
  notifs \cup
    {Notification(FreshId, task.created_by, "task_overdue", task.id, Null)}

\* The response of a scan, and what the history keeps of it.
Finish(s, count, made, dirty, message) ==
  /\ Reply("checkOverdue", Null, 200, message)
  /\ runs' = IF dirty THEN NoRuns
             ELSE [n         |-> IF runs.n = 0 THEN 1 ELSE 2,
                   total     |-> Cardinality(notifs'),
                   same      |-> runs.n = 0 \/ Cardinality(notifs') = runs.total,
                   lastCount |-> count,
                   lastMade  |-> made]

\* The scanners other than s, disturbed when s changed the table or started
\* while they ran.
Others(s, mine, disturbed) ==
  [o \in Scanners |->
     IF o = s THEN mine
     ELSE IF disturbed /\ scan[o].pc # "idle"
       THEN [scan[o] EXCEPT !.dirty = TRUE] ELSE scan[o]]

Busy(s) == \E o \in Scanners \ {s} : scan[o].pc # "idle"

\* The loop goes to the next task, or the handler responds.
Advance(s, count, made, dirty, changed) ==
  LET rest == Tail(scan[s].todo) IN
  IF rest = <<>>
    THEN /\ scan' = Others(s, IdleScan, changed)
         /\ Finish(s, count, made, dirty, "Checked overdue tasks")
    ELSE /\ scan' = Others(s, [pc |-> "lookup", todo |-> rest,
                               count |-> count, made |-> made,
                               dirty |-> dirty], changed)
         /\ UNCHANGED <<runs, resp>>

ScanStart(s) ==
  /\ scan[s].pc = "idle"
  /\ LET overdueTasks == Rows({t \in DOMAIN tasks : Overdue(t)}) IN
     IF overdueTasks = <<>>
       THEN /\ notifs' = notifs
            /\ scan' = Others(s, IdleScan, TRUE)
            /\ Finish(s, 0, 0, Busy(s), "No overdue tasks")
       ELSE /\ scan' = Others(s, [pc |-> "lookup", todo |-> overdueTasks,
                                  count |-> 0, made |-> 0,
                                  dirty |-> Busy(s)], TRUE)
            /\ UNCHANGED <<notifs, runs, resp>>
  /\ UNCHANGED <<classes, nextClass, members, tasks, nextTask, inflight, notifFk, joining, updating, creating>>

ScanLookup(s) ==
  /\ scan[s].pc = "lookup"
  /\ notifs' = notifs
  /\ IF existing(Head(scan[s].todo))
       THEN Advance(s, scan[s].count, scan[s].made, scan[s].dirty, FALSE)
       ELSE /\ scan' = [scan EXCEPT ![s].pc = "insert"]
            /\ UNCHANGED <<runs, resp>>
  /\ UNCHANGED <<classes, nextClass, members, tasks, nextTask, inflight, notifFk, joining, updating, creating>>

\* await createNotification(...); notifiedCount++
ScanInsert(s, ok) ==
  /\ scan[s].pc = "insert"
  /\ LET task == Head(scan[s].todo) IN
     /\ ok => /\ HasFreshId
              /\ task.id \in DOMAIN tasks
     /\ notifs' = IF ok THEN InsertOverdue(task) ELSE notifs
     /\ Advance(s, scan[s].count + 1,
                scan[s].made + (IF ok THEN 1 ELSE 0), scan[s].dirty, ok)
  /\ UNCHANGED <<classes, nextClass, members, tasks, nextTask, inflight,
                 notifFk, joining, updating, creating>>

(* --------------------------- the responses ---------------------------- *)

\* The client has read the response; the server is ready for the next
\* request.  Requests are served one at a time.
Deliver ==
  /\ resp # NoResp
  /\ resp' = NoResp
  /\ UNCHANGED <<classes, nextClass, members, tasks, nextTask, notifs,
                 inflight, notifFk, joining, updating, creating, scan, runs>>

Ready == resp = NoResp

TaskIds == 1..MaxTasks

NotifIds == 1..MaxNotifs

\* A request body of updateTask with none of the fields the handler reads,
\* and no created_by, which it does not read.
NoBody ==
  [title |-> Absent, due_date |-> Absent, status |-> Absent,
   assignee_id |-> Absent, class_id |-> Absent, created_by |-> Absent]

(* ------------- the overdue scan among the owner's requests ------------ *)

ScanCreateBodies ==
  [title : {"t"}, due_date : {Absent, Yesterday, Today},
   assignee_id : {Absent}, class_id : {Absent}]

ScanUpdateBodies ==
  {[NoBody EXCEPT !.status = v] : v \in {"todo", "completed"}}
    \cup {[NoBody EXCEPT !.due_date = v] : v \in {Null, Yesterday, Today}}

Owners == {"t1", "a1"}

OwnerRequest ==
  \/ \E a \in Owners, b \in ScanCreateBodies : Ready /\ createTask(a, b)
  \/ \E a \in Owners, t \in TaskIds, b \in ScanUpdateBodies : Ready /\ updateTask(a, t, b)
  \/ \E a \in Owners, t \in TaskIds : Ready /\ deleteTask(a, t)
  \/ \E a \in Owners, n \in NotifIds : Ready /\ markAsRead(a, n)
  \/ \E a \in Owners : Ready /\ markAllAsRead(a)

\* One checkOverdueTasks at a time.
Scan ==
  \/ Ready /\ ~Busy(1) /\ ScanStart(1)
  \/ Ready /\ ScanLookup(1)
  \/ \E ok \in BOOLEAN : Ready /\ ScanInsert(1, ok)

Next == Deliver \/ OwnerRequest \/ Scan

Spec == Init /\ [][Next]_vars

\* The task_overdue notifications of a task for a user.
OverdueRows(t, u) ==
  {n \in notifs : n.type = "task_overdue" /\ n.task_id = t /\ n.user_id = u}

\* C1: when checkOverdueTasks runs twice in succession and nothing changes
\* tasks or notifications between the two runs, the second run reports
\* count 0 and leaves the number of notifications where the first left it.
C1_SecondScanAddsNothing ==
  runs.n = 2 => runs.lastCount = 0 /\ runs.same

\* C2: while checkOverdueTasks invocations do not overlap, every (task,
\* user) pair has at most one task_overdue notification.
C2_OneOverduePerTaskAndUser ==
  \A t \in TaskIds, u \in Users : Cardinality(OverdueRows(t, u)) <= 1

\* A second scan in a row found the notification of an overdue task and
\* added nothing.
C2_SecondScanSkipped ==
  /\ runs.n = 2
  /\ runs.lastCount = 0
  /\ \E t \in DOMAIN tasks :
       Overdue(t) /\ OverdueRows(t, tasks[t].created_by) # {}

\* C24: the count checkOverdueTasks answers with is the number of
\* task_overdue notifications the call has stored, whether its inserts
\* succeed or fail (for a scan nothing else wrote during).
C24_CountIsNewNotifications ==
  runs.n >= 1 => runs.lastCount = runs.lastMade

\* C28: a notification that stays in the store stays as it is, but for
\* is_read going from false to true; one that leaves the store referenced
\* a task or a class deleted in the same step.
C28_NotificationsOnlyRead ==
  [][\A n \in notifs :
       \/ n \in notifs'
       \/ [n EXCEPT !.is_read = TRUE] \in notifs'
       \/ /\ \A m \in notifs' : m.id # n.id
          /\ \/ n.task_id \in DOMAIN tasks \ DOMAIN tasks'
             \/ n.class_id \in DOMAIN classes \ DOMAIN classes']_vars

(* ------------------ two overdue scans at the same time ---------------- *)

Race ==
  \/ \E s \in Scanners : Ready /\ ScanStart(s)
  \/ \E s \in Scanners : Ready /\ ScanLookup(s)
  \/ \E s \in Scanners, ok \in BOOLEAN : Ready /\ ScanInsert(s, ok)

RaceRequest ==
  \/ \E b \in ScanCreateBodies : Ready /\ createTask("t1", b)
  \/ \E t \in TaskIds, b \in ScanUpdateBodies : Ready /\ updateTask("t1", t, b)
  \/ \E t \in TaskIds : Ready /\ deleteTask("t1", t)

NextRace == Deliver \/ RaceRequest \/ Race

SpecRace == Init /\ [][NextRace]_vars

Duplicated ==
  \E t \in TaskIds, u \in Users : Cardinality(OverdueRows(t, u)) >= 2

\* The ids of the tasks a scan has still to go through.
TodoIds(rows) == {rows[i].id : i \in 1..Len(rows)}

\* C25: a scan takes up the tasks that have a due date before today and
\* are not completed, and no other; for a task it has taken up it sends
\* the insert of a task_overdue notification if and only if no such
\* notification exists for the task and its creator; the row it stores is
\* for the creator of the task.
C25_OverdueIffNoneExists ==
  [][\A s \in Scanners :
       /\ ScanStart(s) =>
            TodoIds(scan'[s].todo) = {t \in DOMAIN tasks : Overdue(t)}
       /\ ScanLookup(s) =>
            LET task == Head(scan[s].todo) IN
            (scan'[s].pc = "insert") <=>
              (OverdueRows(task.id, task.created_by) = {})
       /\ ScanInsert(s, TRUE) =>
            LET task == Head(scan[s].todo) IN
            /\ \A n \in notifs' \ notifs :
                 /\ n.type = "task_overdue"
                 /\ n.task_id = task.id
                 /\ n.user_id = task.created_by
            /\ Cardinality(notifs' \ notifs) = 1]_vars

\* C3: overlapping checkOverdueTasks invocations can leave two task_overdue
\* notifications for the same (task, created_by): the lookup and the insert
\* are two steps.  A second row for a pair is stored only by a scan that
\* another scan or a write to the store overlapped; two overlapping scans
\* do store one (C3_TwoOverdueRows).
C3_DuplicateNeedsOverlap ==
  [][\A s \in Scanners :
       (ScanInsert(s, TRUE) /\ ~Duplicated /\ Duplicated') => scan[s].dirty]_vars

\* Both scans looked the task up before either inserted, and both inserted.
C3_TwoOverdueRows ==
  \E t \in DOMAIN tasks :
    Cardinality(OverdueRows(t, tasks[t].created_by)) = 2

(* ------------- a task, its creator, its assignee, the others --------- *)

TaskCreateBodies ==
  [title : {"t", Absent}, due_date : {Absent},
   assignee_id : {Absent, "s1", NoSuchUser}, class_id : {Absent}]

TaskUpdateBodies ==
  {NoBody, [NoBody EXCEPT !.title = "x"],
   [NoBody EXCEPT !.title = "x", !.status = "todo"]}
    \cup {[NoBody EXCEPT !.status = v] : v \in {"completed", "bogus"}}
    \cup {[NoBody EXCEPT !.assignee_id = v] : v \in {Null, "s1"}}

TaskRequest ==
  \/ \E a \in {"s1", "t1"}, b \in TaskCreateBodies : Ready /\ createTask(a, b)
  \/ \E a \in {"s1", "t1", "t2"}, t \in TaskIds, b \in TaskUpdateBodies :
       Ready /\ updateTask(a, t, b)
  \/ \E a \in {"s1", "t1", "t2"}, t \in TaskIds : Ready /\ deleteTask(a, t)

\* An insert started by a handler reaches the store, at any later time.
Landing == \E n \in inflight, ok \in BOOLEAN : createNotification(n, ok)

NextTasks == Deliver \/ Landing \/ TaskRequest

SpecTasks == Init /\ [][NextTasks]_vars

\* The step is the answer of handler op to a request; Actor made it.
Answer(op) == Ready /\ resp'.op = op

Actor == resp'.actor

\* The notifications of a type about a task for a user, among rows.
About(rows, type, t, u) ==
  {n \in rows : n.type = type /\ n.task_id = t /\ n.user_id = u}

CreatedWithAssignee(b) ==
  createTask(Actor, b) /\ resp'.status = 201 /\ ~Falsy(b.assignee_id)

StudentCompletes(t) ==
  /\ Role[Actor] = "student"
  /\ tasks[t].assignee_id = Actor
  /\ updateTask(Actor, t, [NoBody EXCEPT !.status = "completed"])

NotifTypes == {"task_assigned", "task_completed", "task_overdue", "class_joined"}

\* C6: a task, a type and a user never have more than one notification.
C6_OnePerTaskTypeUser ==
  \A t \in TaskIds, type \in NotifTypes, u \in Users :
    Cardinality(About(notifs, type, t, u)) <= 1

\* C9: updateTask by a teacher on a task somebody else created answers 403
\* whatever the payload, and leaves tasks and notifications as they were.
C9_OtherTeacherForbidden ==
  [][Answer("updateTask") /\ Role[Actor] = "teacher" =>
       \A t \in DOMAIN tasks, b \in TaskUpdateBodies :
         tasks[t].created_by # Actor /\ updateTask(Actor, t, b) =>
           /\ resp'.status = 403
           /\ tasks' = tasks
           /\ notifs' = notifs
           /\ inflight' = inflight]_vars

\* A teacher was refused on a colleague's task while notifications exist.
C9_TeacherRefused ==
  /\ resp = [op |-> "updateTask", actor |-> "t2", status |-> 403,
             message |-> "you can only edit tasks you created"]
  /\ \E t \in DOMAIN tasks : tasks[t].created_by = "t1"
  /\ notifs # {}

\* C10: updateTask by the assigned student with no status in the payload
\* answers 400 and leaves tasks and notifications as they were.
C10_StudentNeedsStatus ==
  [][Answer("updateTask") /\ Role[Actor] = "student" =>
       \A t \in DOMAIN tasks, b \in TaskUpdateBodies :
         (/\ tasks[t].assignee_id = Actor
          /\ b.status = Absent
          /\ updateTask(Actor, t, b)) =>
           /\ resp'.status = 400
           /\ tasks' = tasks
           /\ notifs' = notifs
           /\ inflight' = inflight]_vars

\* The assigned student was refused while notifications exist.
C10_StudentRefused ==
  /\ resp = [op |-> "updateTask", actor |-> "s1", status |-> 400,
             message |-> "Students can only update task status"]
  /\ \E t \in DOMAIN tasks : tasks[t].assignee_id = "s1"
  /\ notifs # {}

\* C11: updateTask by the assigned student with a payload that names a
\* field other than status answers 400 and leaves the task as it was,
\* with or without a status in the payload.
C11_StudentOtherFieldRefused ==
  [][Answer("updateTask") /\ Role[Actor] = "student" =>
       \A t \in DOMAIN tasks, b \in TaskUpdateBodies :
         (/\ tasks[t].assignee_id = Actor
          /\ updateData(b) \ {"status"} # {}
          /\ updateTask(Actor, t, b)) =>
           /\ resp'.status = 400
           /\ tasks' = tasks]_vars

C17_FailedInsertAbsorbed ==
  [][\A n \in inflight, ok \in BOOLEAN :
       createNotification(n, ok) =>
         /\ n.type \in {"task_assigned", "task_completed"}
         /\ tasks' = tasks
         /\ resp' = resp
         /\ notifs' = IF ok THEN notifs \cup {n} ELSE notifs
         /\ UNCHANGED <<classes, members, nextTask>>]_vars

\* createTask has answered 201 for a task assigned to s1, the insert of
\* its notification has failed, and the task is there.
C17_CreatedWithoutNotification ==
  /\ resp.op = "createTask" /\ resp.status = 201
  /\ nextTask - 1 \in DOMAIN tasks
  /\ tasks[nextTask - 1].assignee_id = "s1"
  /\ About(inflight \cup notifs, "task_assigned", nextTask - 1, "s1") = {}

(* -------------------- a class, its teacher, its tasks ------------------ *)

ClassCreateBodies ==
  [title : {"t", Absent}, due_date : {Absent},
   assignee_id : {Absent, "s1"},
   class_id : {Absent, NoSuchClass} \cup ClassIds]

\* The one payload that takes a task out of its class also renames it and
\* names another teacher as created_by.
ClassUpdateBodies ==
  {[NoBody EXCEPT !.class_id = v] : v \in {NoSuchClass} \cup ClassIds}
    \cup {[NoBody EXCEPT !.class_id = Null, !.title = "y", !.created_by = "t2"]}

\* Who reads a task or a class: a student, and a teacher who owns neither.
Readers == {"s1", "t2"}

\* One class is created in this specification; SpecMembers has two.
ClassRequest ==
  \/ \E a \in {"s1", "t1"}, nameBlank \in BOOLEAN, code1 \in Codes, code2 \in Codes :
       Ready /\ nextClass = 1 /\ createClass(a, nameBlank, code1, code2)
  \/ \E a \in Users, c \in ClassIds : Ready /\ deleteClass(a, c)
  \/ \E a \in {"s1", "t1"}, code \in {Absent} \cup Codes : Ready /\ joinClass(a, code)
  \/ \E a \in Users, c \in ClassIds : Ready /\ removeMember(a, c, "s1")
  \/ \E a \in Users, b \in ClassCreateBodies : Ready /\ createTask(a, b)
  \/ \E a \in Users, t \in TaskIds, b \in ClassUpdateBodies : Ready /\ updateTask(a, t, b)
  \/ \E a \in Users, t \in TaskIds : Ready /\ deleteTask(a, t)
  \/ \E a \in Readers, t \in TaskIds : Ready /\ getTask(a, t)
  \/ \E a \in Readers, c \in ClassIds : Ready /\ getClass(a, c)
  \/ \E a \in {"t1", "t2"}, c \in ClassIds, empty \in BOOLEAN :
       Ready /\ updateClass(a, c, empty)

NextClasses == Deliver \/ Landing \/ ClassRequest

SpecClasses == Init /\ [][NextClasses]_vars

\* C7: a task in a class was created by the teacher of the class or by an
\* admin.
C7_ClassTaskByItsTeacher ==
  \A t \in DOMAIN tasks :
    tasks[t].class_id # Null =>
      \/ Role[tasks[t].created_by] = "admin"
      \/ /\ tasks[t].class_id \in DOMAIN classes
         /\ classes[tasks[t].class_id].teacher_id = tasks[t].created_by

C12_DeleteClassKeepsTasks ==
  [][Answer("deleteClass") /\ resp'.status = 200 =>
       \A c \in DOMAIN classes :
         deleteClass(Actor, c) =>
           /\ DOMAIN tasks' = DOMAIN tasks
           /\ \A t \in DOMAIN tasks :
                tasks'[t] = IF tasks[t].class_id = c
                              THEN [tasks[t] EXCEPT !.class_id = Null]
                              ELSE tasks[t]
           /\ c \notin DOMAIN classes'
           /\ members' = {m \in members : m[1] # c}]_vars

\* A class was deleted with a task in it: the task was created in the
\* class, as its notification tells, and was not edited out of it, as its
\* title tells.
C12_TaskOutlivedItsClass ==
  /\ resp.op = "deleteClass" /\ resp.status = 200
  /\ \E t \in DOMAIN tasks, n \in notifs \cup inflight :
       /\ n.task_id = t
       /\ n.class_id \in ClassIds \ DOMAIN classes
       /\ tasks[t].class_id = Null
       /\ tasks[t].title = "t"

\* The statuses of ValidationError and ConflictError, ForbiddenError,
\* NotFoundError.
ErrorStatus == {400, 403, 404}

\* C21: a request to createClass, joinClass, removeMember, updateClass,
\* deleteClass, createTask, updateTask or deleteTask that is answered 400,
\* 403 or 404 leaves classes, memberships, tasks and notifications, stored
\* or on their way, as they were.
C21_RefusalChangesNothing ==
  [][Ready /\ resp'.status \in ErrorStatus =>
       UNCHANGED <<classes, members, tasks, notifs, inflight>>]_vars

\* A teacher was refused the deletion of a colleague's class that has a
\* member and a task.
C21_DeleteRefused ==
  /\ resp = [op |-> "deleteClass", actor |-> "t2", status |-> 403,
             message |-> "Forbidden"]
  /\ \E c \in DOMAIN classes, t \in DOMAIN tasks :
       <<c, "s1">> \in members /\ tasks[t].class_id = c

\* The entity is there and the actor may not see it.
HiddenTask(t, actor) ==
  /\ t \in DOMAIN tasks
  /\ \/ Role[actor] = "student" /\ tasks[t].assignee_id # actor
     \/ Role[actor] = "teacher" /\ tasks[t].created_by # actor

HiddenClass(c, actor) ==
  /\ c \in DOMAIN classes
  /\ \/ Role[actor] = "student" /\ <<c, actor>> \notin members
     \/ Role[actor] = "teacher" /\ classes[c].teacher_id # actor

\* C18: to a student or a teacher, getTask and updateTask on a task they
\* may not see, and getClass on such a class, answer what they answer when
\* the task or the class is not there: 404.
C18_HiddenLooksAbsent ==
  [][/\ Answer("getTask") =>
          \A t \in TaskIds :
            HiddenTask(t, Actor) /\ getTask(Actor, t) => resp'.status = 404
     /\ Answer("updateTask") =>
          \A t \in TaskIds, b \in ClassUpdateBodies :
            HiddenTask(t, Actor) /\ updateTask(Actor, t, b) => resp'.status = 404
     /\ Answer("getClass") =>
          \A c \in ClassIds :
            HiddenClass(c, Actor) /\ getClass(Actor, c) => resp'.status = 404]_vars

\* C19: created_by of a task never changes, whatever the payload of an
\* updateTask, created_by included, and whatever is done to its class.
C19_CreatedByImmutable ==
  [][\A t \in DOMAIN tasks \cap DOMAIN tasks' :
       tasks'[t].created_by = tasks[t].created_by]_vars

\* The payload with created_by "t2" was written to a task: the task has
\* its title, and the creator it had.
C19_CreatorKept ==
  \E t \in DOMAIN tasks :
    tasks[t].title = "y" /\ tasks[t].created_by = "t1"

(* ---------------- notifications and those who read them --------------- *)

ReadCreateBody ==
  [title |-> "t", due_date |-> Absent, assignee_id |-> "s1", class_id |-> Absent,
   status |-> Absent, created_by |-> Absent]

\* The one payload with this title claims a status and a creator.
ForgedCreateBody ==
  [ReadCreateBody EXCEPT !.title = "z", !.status = "completed", !.created_by = "s1"]

ReadCreateBodies == {ReadCreateBody, ForgedCreateBody}

\* What the teacher and the admin send to updateTask.
ReadUpdateBodies ==
  {[NoBody EXCEPT !.status = "completed"],
   [NoBody EXCEPT !.assignee_id = Null],
   [NoBody EXCEPT !.assignee_id = "s1"]}

\* A teacher's task for a student, the student's work on it, the admin's
\* hand in it, and all of them reading notifications, theirs or not.
ReadRequest ==
  \/ \E b \in ReadCreateBodies : Ready /\ createTask("t1", b)
  \/ \E t \in TaskIds : Ready /\ updateTask("s1", t, [NoBody EXCEPT !.status = "completed"])
  \/ \E a \in {"t1", "a1"}, t \in TaskIds, b \in ReadUpdateBodies :
       Ready /\ updateTask(a, t, b)
  \/ \E t \in TaskIds : Ready /\ getTask("a1", t)
  \/ \E t \in TaskIds : Ready /\ deleteTask("a1", t)
  \/ \E a \in {"s1", "t1"}, n \in NotifIds : Ready /\ markAsRead(a, n)
  \/ \E a \in {"s1", "t1"} : Ready /\ markAllAsRead(a)

NextRead == Deliver \/ Landing \/ ReadRequest

SpecRead == Init /\ [][NextRead]_vars

\* The notifications that are not the actor's.
NotOf(rows, actor) == {n \in rows : n.user_id # actor}

\* C16: markAsRead, whatever id it names, and markAllAsRead leave every
\* notification of a user other than the caller as it was.
C16_ReadScopedToCaller ==
  [][Answer("markAsRead") \/ Answer("markAllAsRead") =>
       /\ \A n \in NotifIds :
            markAsRead(Actor, n) => NotOf(notifs', Actor) = NotOf(notifs, Actor)
       /\ markAllAsRead(Actor) => NotOf(notifs', Actor) = NotOf(notifs, Actor)]_vars

\* The student named a notification in markAsRead; every id is that of a
\* notification of the teacher, and all of them are unread still.
C16_OthersStillUnread ==
  /\ resp.op = "markAsRead" /\ resp.actor = "s1"
  /\ {n.id : n \in notifs} = NotifIds
  /\ \A n \in notifs : n.user_id = "t1" /\ ~n.is_read

\* C23: an admin is never refused on a task for not being its creator or
\* assignee: getTask, updateTask and deleteTask answer 200 on every task
\* there is, and getTasks answers with every task.
C23_AdminSeesAndWritesAll ==
  /\ [](\A a \in Users : Role[a] = "admin" => getTasks(a) = DOMAIN tasks)
  /\ [][Answer("getTask") /\ Role[Actor] = "admin" =>
          \A t \in DOMAIN tasks : getTask(Actor, t) => resp'.status = 200]_vars
  /\ [][Answer("updateTask") /\ Role[Actor] = "admin" =>
          \A t \in DOMAIN tasks, b \in ReadUpdateBodies :
            updateTask(Actor, t, b) => resp'.status = 200]_vars
  /\ [][Answer("deleteTask") /\ Role[Actor] = "admin" =>
          \A t \in DOMAIN tasks : deleteTask(Actor, t) => resp'.status = 200]_vars

\* C26: the task of a createTask that answers 201 has status "todo" and
\* the actor as created_by, whatever the payload says of either.
C26_StatusAndCreatorForced ==
  [][Answer("createTask") /\ resp'.status = 201 =>
       \A b \in ReadCreateBodies :
         createTask(Actor, b) =>
           /\ nextTask \in DOMAIN tasks'
           /\ tasks'[nextTask].status = "todo"
           /\ tasks'[nextTask].created_by = Actor]_vars

\* The payload that claims status "completed" and creator s1 was stored as
\* a task to do, of the teacher who sent it.
C26_ForgedFieldsDropped ==
  /\ resp.op = "createTask" /\ resp.status = 201 /\ resp.actor = "t1"
  /\ nextTask - 1 \in DOMAIN tasks
  /\ tasks[nextTask - 1].title = "z"
  /\ tasks[nextTask - 1].status = "todo"
  /\ tasks[nextTask - 1].created_by = "t1"

\* C27: updateTask by a teacher or an admin stores no notification and
\* starts the insert of none, whatever the payload.
C27_OwnerEditNotifiesNobody ==
  [][Answer("updateTask") /\ Role[Actor] \in {"teacher", "admin"} =>
       notifs' = notifs /\ inflight' = inflight]_vars

\* The admin has completed a task: no task_completed notification is
\* stored or on its way.
C27_CompletedByAdmin ==
  /\ resp = [op |-> "updateTask", actor |-> "a1", status |-> 200,
             message |-> "Task updated successfully"]
  /\ \E t \in DOMAIN tasks :
       /\ tasks[t].status = "completed"
       /\ About(notifs \cup inflight, "task_completed", t, tasks[t].created_by) = {}

(* ------------- a student's write and a teacher's reassignment -------- *)

\* What the student sends to updateTask.
StudentBodies == {[NoBody EXCEPT !.status = v] : v \in {"completed", "in-progress"}}

\* What the teacher and the admin send: the task given to nobody, or to
\* the student.
ReassignBodies == {[NoBody EXCEPT !.assignee_id = v] : v \in {Null, "s1"}}

\* A teacher's task for a student; the student's updateTask calls, each in
\* two steps; the teacher or the admin reassigning the task or deleting it
\* at any time.
WriteRequest ==
  \/ Ready /\ createTask("t1", ReadCreateBody)
  \/ \E t \in TaskIds, b \in StudentBodies : Ready /\ updateTaskRead("s1", t, b)
  \/ \E u \in updating : Ready /\ updateTaskWrite(u)
  \/ \E a \in {"t1", "a1"}, t \in TaskIds, b \in ReassignBodies :
       Ready /\ updateTask(a, t, b)
  \/ \E t \in TaskIds : Ready /\ deleteTask("t1", t)

NextWrite == Deliver \/ Landing \/ WriteRequest

SpecWrite == Init /\ [][NextWrite]_vars

\* C30: a student's updateTask that writes the status of a task finds the
\* task assigned to that student at the time of the write.
C30_WriterIsAssignee ==
  [][\A u \in updating :
       (/\ updateTaskWrite(u)
        /\ resp'.status = 200) =>
         tasks[u.id].assignee_id = u.actor]_vars

(* ------------------- joinClass calls that overlap -------------------- *)

\* A teacher's classes; a student and another teacher who join them, each
\* with up to two requests under way; the teacher removing a member or the
\* class in between.
JoinRequest ==
  \/ \E code1 \in Codes, code2 \in Codes :
       Ready /\ createClass("t1", FALSE, code1, code2)
  \/ \E tag \in JoinTags, a \in {"s1", "t2"}, code \in Codes :
       Ready /\ joinClassLookup(tag, a, code)
  \/ \E j \in joining : Ready /\ joinClassInsert(j)
  \/ \E c \in ClassIds, u \in {"s1", "t2"} : Ready /\ removeMember("t1", c, u)
  \/ \E c \in ClassIds : Ready /\ deleteClass("t1", c)

NextJoin == Deliver \/ JoinRequest

SpecJoin == Init /\ [][NextJoin]_vars

\* The calls under way that are for the same class and user as j.
Rivals(j) ==
  {k \in joining : k # j /\ k.class_id = j.class_id /\ k.user_id = j.user_id}

\* C29: class_members never holds two rows with the same class_id and
\* user_id; of two joinClass calls by one user for one class that have both
\* passed the lookup, the first to insert answers 200 and stores the row,
\* and a call whose insert finds the row answers 500 "Internal server
\* error", not the 400 of the lookup, and stores nothing.
C29_OneRowPerClassAndUser ==
  /\ [](\A m1 \in members, m2 \in members :
          m1[1] = m2[1] /\ m1[2] = m2[2] => m1 = m2)
  /\ [][\A j \in joining :
          (/\ joinClassInsert(j)
           /\ j.class_id \in DOMAIN classes
           /\ Rivals(j) # {}
           /\ <<j.class_id, j.user_id>> \notin members) =>
            /\ resp'.status = 200
            /\ members' = members \cup {<<j.class_id, j.user_id>>}]_vars
  /\ [][\A j \in joining :
          (/\ joinClassInsert(j)
           /\ <<j.class_id, j.user_id>> \in members) =>
            /\ resp'.op = "joinClass"
            /\ resp'.status = 500
            /\ resp'.message = "Internal server error"
            /\ members' = members]_vars

\* The second of two overlapping calls has been answered 500: no class has
\* been deleted, the row of the first is there and no call is under way.
C29_SecondInsertRefused ==
  /\ resp = [op |-> "joinClass", actor |-> "s1", status |-> 500,
             message |-> "Internal server error"]
  /\ joining = {}
  /\ Cardinality(DOMAIN classes) = nextClass - 1
  /\ \E c \in DOMAIN classes : <<c, "s1">> \in members

(* ------------ classes, their invite codes, their members ------------- *)

\* What a join request carries as invite_code.
JoinCodes == {Absent, " ", " k1 "} \cup Codes

Joiners == {"s1", "t1", "t2"}

\* createClass calls overlap: the insert of one may come after the lookup
\* of another.
MemberRequest ==
  \/ \E a \in Joiners, nameBlank \in BOOLEAN, code1 \in Codes, code2 \in Codes :
       Ready /\ createClassLookup(a, nameBlank, code1, code2)
  \/ \E c \in creating : Ready /\ createClassInsert(c)
  \/ \E a \in {"t1", "t2"}, c \in ClassIds : Ready /\ deleteClass(a, c)
  \/ \E a \in Joiners, code \in JoinCodes : Ready /\ joinClass(a, code)
  \/ \E a \in {"t1", "t2"}, c \in ClassIds, u \in Joiners :
       Ready /\ removeMember(a, c, u)
  \/ \E c \in ClassIds : Ready /\ getClass("s1", c)

NextMembers == Deliver \/ MemberRequest

SpecMembers == Init /\ [][NextMembers]_vars

\* The class a join request with this code is about.
ClassOf(code) ==
  {c \in DOMAIN classes : classes[c].invite_code = Trim(code)}

\* C13: joinClass by the teacher of a class with the code of the class
\* answers 400 and inserts no membership row, and the teacher of a class is
\* never among its members.
C13_TeacherNeverMember ==
  /\ [](\A c \in DOMAIN classes : <<c, classes[c].teacher_id>> \notin members)
  /\ [][Answer("joinClass") =>
          \A c \in DOMAIN classes, code \in JoinCodes :
            (/\ c \in ClassOf(code)
             /\ classes[c].teacher_id = Actor
             /\ joinClass(Actor, code)) =>
              /\ resp'.status = 400
              /\ members' = members]_vars

\* The teacher of a class that has a member was refused.
C13_TeacherRefused ==
  /\ resp.op = "joinClass" /\ resp.status = 400
  /\ resp.message = "You are the teacher of this class"
  /\ \E c \in DOMAIN classes :
       classes[c].teacher_id = resp.actor /\ <<c, "s1">> \in members

\* C14: joinClass with the code of a class by a user who is not its
\* teacher answers 200 and adds the one row (class, user) when the user is
\* not a member, and answers "already a member" and leaves the members as
\* they are when the user is one, as after a first join.
C14_JoinThenConflict ==
  [][Answer("joinClass") =>
       \A c \in DOMAIN classes, code \in JoinCodes :
         (/\ c \in ClassOf(code)
          /\ classes[c].teacher_id # Actor
          /\ joinClass(Actor, code)) =>
           IF <<c, Actor>> \in members
             THEN /\ resp'.status = 400
                  /\ resp'.message = "You are already a member of this class"
                  /\ members' = members
             ELSE /\ resp'.status = 200
                  /\ <<c, Actor>> \notin members
                  /\ members' = members \cup {<<c, Actor>>}]_vars

\* A member joined again and was refused.
C14_SecondJoinRefused ==
  /\ resp.op = "joinClass" /\ resp.status = 400
  /\ resp.message = "You are already a member of this class"
  /\ \E c \in DOMAIN classes : <<c, resp.actor>> \in members

\* C15: no two classes have the same invite_code, however createClass
\* calls overlap; the code a call inserts is its first, or its second when
\* the lookup found the first, with no further lookup; an insert of a code
\* that a class has answers 500 and adds no class.
C15_InviteCodesUnique ==
  /\ [](\A c \in DOMAIN classes, d \in DOMAIN classes :
          c # d => classes[c].invite_code # classes[d].invite_code)
  /\ [][\A a \in Joiners, code1 \in Codes, code2 \in Codes :
          (requireRole(a) /\ createClassLookup(a, FALSE, code1, code2)) =>
            /\ ~CodeTaken(code1) =>
                 [teacher_id |-> a, invite_code |-> code1] \in creating'
            /\ CodeTaken(code1) =>
                 [teacher_id |-> a, invite_code |-> code2] \in creating']_vars
  /\ [][\A c \in creating :
          (createClassInsert(c) /\ CodeTaken(c.invite_code)) =>
            /\ resp'.status = 500
            /\ classes' = classes]_vars

\* A createClass was answered 500, and a class of another teacher exists.
C15_CollisionRefused ==
  /\ resp.op = "createClass" /\ resp.status = 500
  /\ \E c \in DOMAIN classes : classes[c].teacher_id # resp.actor

\* C22: a student reads a class and its members only where the student
\* is a member: getClasses answers with the student's classes, getClass
\* and getClassMembers on another class give no class and no member.
C22_StudentReadsOwnClassesOnly ==
  /\ [](\A s \in Joiners :
          Role[s] = "student" =>
            /\ getClasses(s) = {c \in DOMAIN classes : <<c, s>> \in members}
            /\ \A c \in DOMAIN classes :
                 <<c, s>> \notin members => getClassMembers(s, c) = {})
  /\ [][Answer("getClass") /\ Role[Actor] = "student" =>
          \A c \in ClassIds :
            (<<c, Actor>> \notin members /\ getClass(Actor, c)) =>
              resp'.status # 200]_vars

====
